---- MODULE Spec2Model ----
(***************************************************************************)
(* The feed-processing pipeline of rss_to_blogger.py: main() runs          *)
(* process_feed for every feed of RSS_FEEDS on a ThreadPoolExecutor of     *)
(* MAX_WORKERS threads; the workers share PROCESSED_ARTICLES and SUMMARY   *)
(* under PROCESSED_ARTICLES_LOCK.  Every `with PROCESSED_ARTICLES_LOCK:`   *)
(* block is two steps (acquire, then body and release), every network      *)
(* call (feed fetch, rewrite, authentication, posts.insert) is one step    *)
(* whose outcome the environment chooses.                                  *)
(***************************************************************************)
EXTENDS Integers, Sequences, FiniteSets, TLC

\* ------------------------------------------------------------ constants
ARTICLES_PER_FEED == 4
MIN_WORD_COUNT == 15
MAX_WORKERS == 3

\* Bounds of the model (not program constants).
\* The number of external-call failures the environment may inject in a run.
MaxFaults == 2
\* The number of feeds of the concurrent scenarios.
NumFeeds == 4

\* Python's None, and the owner of an unlocked lock.
None == [none |-> TRUE]
NoOwner == 0

\* ------------------------------------------------------------ text
\* Raw entry content is a sequence of tokens: "w" is one non-blank character
\* run, " " a blank, "<p>" and "</p>" paragraph tags, "&amp;" an entity.
RECURSIVE Words(_)
Words(n) == IF n = 0 THEN <<>>
            ELSE IF n = 1 THEN <<"w">>
            ELSE <<"w", " ">> \o Words(n - 1)

Para(s) == <<"<p>">> \o s \o <<"</p>">>

IsBlank(c) == c \in {" ", "\n"}

\* markdownify.markdownify: a paragraph tag becomes a line break, text stays.
markdownify(text) ==
    [i \in 1..Len(text) |-> IF text[i] \in {"<p>", "</p>"} THEN "\n" ELSE text[i]]

\* html.unescape: entities are decoded.
unescape(text) ==
    [i \in 1..Len(text) |-> IF text[i] = "&amp;" THEN "&" ELSE text[i]]

\* re.sub(r'\s+', ' ', text): every run of blanks becomes one blank.
RECURSIVE CollapseBlanks(_)
CollapseBlanks(text) ==
    IF text = <<>> THEN <<>>
    ELSE IF IsBlank(Head(text))
         THEN IF Len(text) > 1 /\ IsBlank(text[2])
              THEN CollapseBlanks(Tail(text))
              ELSE <<" ">> \o CollapseBlanks(Tail(text))
         ELSE <<Head(text)>> \o CollapseBlanks(Tail(text))

\* str.strip(): leading and trailing blanks are dropped.
RECURSIVE StripLeft(_)
StripLeft(text) ==
    IF text # <<>> /\ IsBlank(Head(text)) THEN StripLeft(Tail(text)) ELSE text

RECURSIVE StripRight(_)
StripRight(text) ==
    IF text # <<>> /\ IsBlank(text[Len(text)])
    THEN StripRight(SubSeq(text, 1, Len(text) - 1))
    ELSE text

clean_text(text) == StripRight(StripLeft(CollapseBlanks(unescape(markdownify(text)))))

\* len(cleaned_content.split()): the number of maximal non-blank runs.
RECURSIVE SplitCount(_, _)
SplitCount(text, inWord) ==
    IF text = <<>> THEN 0
    ELSE IF IsBlank(Head(text)) THEN SplitCount(Tail(text), FALSE)
    ELSE (IF inWord THEN 0 ELSE 1) + SplitCount(Tail(text), TRUE)

WordCount(cleaned) == SplitCount(cleaned, FALSE)

\* ------------------------------------------------------------ entries
\* dict.get(key, default) on a feed entry.
EntryGet(entry, key, default) ==
    IF key \in DOMAIN entry THEN entry[key] ELSE default

EntryTitle(entry) == EntryGet(entry, "title", "No Title")
EntryLink(entry) == EntryGet(entry, "link", "")

\* entry.get("description", "") or entry.get("content", [{}])[0].get("value", "")
EntryContent(entry) ==
    IF EntryGet(entry, "description", <<>>) # <<>>
    THEN entry["description"]
    ELSE EntryGet(entry, "content", <<>>)

ArticleIdentifier(entry) == <<EntryTitle(entry), EntryLink(entry)>>

\* An URL is its name and its extension as written; lower() folds the case.
Lower(ext) ==
    CASE ext = ".JPG" -> ".jpg"
      [] ext = ".PNG" -> ".png"
      [] OTHER -> ext

ImageExtensions == {".jpg", ".jpeg", ".png", ".gif"}

MediaFields == <<"media_content", "media_thumbnail", "enclosure">>

\* The url of the first element of a media field that is a non-empty list.
FieldUrl(entry, field) ==
    IF field \in DOMAIN entry /\ entry[field] # <<>>
    THEN entry[field][1]
    ELSE [name |-> "", ext |-> ""]

UsableImage(url) == url.name # "" /\ Lower(url.ext) \in ImageExtensions

RECURSIVE ExtractFrom(_, _)
ExtractFrom(entry, k) ==
    IF k > Len(MediaFields) THEN None
    ELSE IF UsableImage(FieldUrl(entry, MediaFields[k]))
         THEN FieldUrl(entry, MediaFields[k])
         ELSE ExtractFrom(entry, k + 1)

extract_image(entry) == ExtractFrom(entry, 1)

\* ------------------------------------------------------------ feeds
LongText == Para(Words(MIN_WORD_COUNT + 1))
EdgeText == Words(MIN_WORD_COUNT)
ShortText == Para(<<"w", "&amp;", "w", " ", " ", "w">>)

Jpg(n) == <<[name |-> n, ext |-> ".JPG"]>>
Webp(n) == <<[name |-> n, ext |-> ".webp"]>>

Entry(t, l, d) == [title |-> t, link |-> l, description |-> d]
WithImage(e, field, urls) ==
    [k \in DOMAIN e \cup {field} |-> IF k = field THEN urls ELSE e[k]]

\* The feeds of a run.  Scenario 1 is NumFeeds feeds handled concurrently,
\* the first two carrying the same article and the others empty; scenario 2
\* is one feed with more than ARTICLES_PER_FEED qualifying entries; scenario 3
\* is one feed with two qualifying entries among short ones; scenario 4 is
\* two feeds that carry the same article, one of them cut short.
Scenarios == 1..4

SharedLong == Entry("X", "u/x", LongText)
SharedShort == Entry("X", "u/x", ShortText)

ConcurrentFeed(f) ==
    CASE f = 1 -> <<WithImage(SharedLong, "media_content", Jpg("x"))>>
      [] f = 2 -> <<SharedLong>>
      [] OTHER -> <<>>

QuotaFeed ==
    <<Entry("A", "u/a", LongText),
      WithImage(Entry("B", "u/b", LongText), "enclosure", Jpg("b")),
      Entry("C", "u/c", EdgeText),
      Entry("C", "u/c2", LongText),
      Entry("A", "u/a", LongText),
      Entry("D", "u/d", LongText)>>

ShortfallFeed ==
    <<WithImage(WithImage(Entry("S", "u/s", ShortText),
                          "media_content", Webp("s")),
                "media_thumbnail", Jpg("s")),
      Entry("A", "u/a", ShortText),
      Entry("A", "u/a", LongText),
      Entry("B", "u/b", LongText),
      [link |-> "u/t", description |-> <<>>, content |-> ShortText]>>

SyndicatedFeed(f) ==
    IF f = 1
    THEN <<SharedShort, [link |-> "u/y", content |-> LongText]>>
    ELSE <<SharedLong>>

RSS_FEEDS(s) ==
    CASE s = 1 -> 1..NumFeeds
      [] s = 4 -> 1..2
      [] OTHER -> 1..1

FeedEntries(s, f) ==
    CASE s = 1 -> ConcurrentFeed(f)
      [] s = 2 -> QuotaFeed
      [] s = 3 -> ShortfallFeed
      [] OTHER -> SyndicatedFeed(f)

\* ------------------------------------------------------------ state
VARIABLES
    scenario,            \* which feeds this run is configured with
    driver,              \* position of the module body and main()
    queue,               \* feeds submitted to the executor, not yet started
    pc,                  \* position of process_feed, per feed
    entries,             \* feed.entries, per feed
    entry_index,         \* per feed
    articles_processed,  \* per feed
    pass,                \* 1: primary loop, 2: retry loop, per feed
    article,             \* rewritten_article, per feed
    PROCESSED_ARTICLES,
    SUMMARY,
    lock,                \* owner of PROCESSED_ARTICLES_LOCK
    SKIPPED_LOG,         \* the lines each worker appended to the skip log
    faults,              \* failures injected so far
    rewritten,           \* <<feed, entry index, pass>> passed to rewrite_article
    skippedShort,        \* <<feed, entry index>> skipped as below word count
    pubCalls,            \* calls of post_to_blogger_draft, per feed and pass
    authCalls,           \* calls of get_blogger_service, per feed
    insertCalls,         \* calls of posts.insert, per feed
    postIds,             \* post identifiers returned by the Publisher, per feed
    authFailed,          \* get_blogger_service has called exit(1)
    summaryFile          \* the summary artifacts written

vars == <<scenario, driver, queue, pc, entries, entry_index, articles_processed,
          pass, article, PROCESSED_ARTICLES, SUMMARY, lock, SKIPPED_LOG,
          faults, rewritten, skippedShort, pubCalls, authCalls, insertCalls,
          postIds, authFailed, summaryFile>>

Feeds == RSS_FEEDS(scenario)

\* Every feed identifier of any scenario.
FeedIds == 1..NumFeeds

\* The entry the worker of feed f is working on: entries[entry_index - 1] once
\* entry_index has been advanced.
CurrentEntry(f) == entries[f][entry_index[f]]

Bump(counter) == [SUMMARY EXCEPT ![counter] = @ + 1]

Init ==
    /\ scenario \in Scenarios
    /\ driver = "startup"
    /\ queue = <<>>
    /\ pc = [f \in Feeds |-> "queued"]
    /\ entries = [f \in Feeds |-> <<>>]
    /\ entry_index = [f \in Feeds |-> 0]
    /\ articles_processed = [f \in Feeds |-> 0]
    /\ pass = [f \in Feeds |-> 1]
    /\ article = [f \in Feeds |-> None]
    /\ PROCESSED_ARTICLES = {}
    /\ SUMMARY = [feeds_processed |-> 0, articles_posted |-> 0,
                  duplicates_skipped |-> 0, images_included |-> 0,
                  articles_skipped_short |-> 0]
    /\ lock = NoOwner
    /\ SKIPPED_LOG = [f \in Feeds |-> <<>>]
    /\ faults = 0
    /\ rewritten = {}
    /\ skippedShort = {}
    /\ pubCalls = [f \in Feeds |-> <<0, 0>>]
    /\ authCalls = [f \in Feeds |-> 0]
    /\ insertCalls = [f \in Feeds |-> 0]
    /\ postIds = [f \in Feeds |-> 0]
    /\ authFailed = FALSE
    /\ summaryFile = <<>>

\* ------------------------------------------------------------ helpers
\* Feed identifiers in the order executor.map submits them.
RECURSIVE InOrder(_, _)
InOrder(from, to) ==
    IF from > to THEN <<>> ELSE <<from>> \o InOrder(from + 1, to)

\* Feed Workers between the start of their fetch and their end.
Active == {f \in Feeds : pc[f] \notin {"queued", "done", "aborted"}}

\* Variant: a pool that starts every submitted work item at once.
PoolUnbounded == TRUE

\* ThreadPoolExecutor(max_workers=MAX_WORKERS): a thread is free for the
\* next work item.
PoolHasIdleThread == Cardinality(Active) < MAX_WORKERS

\* Variant: a loop condition that stops one article short of the quota.
LoopStopsEarly(f) ==
    /\ articles_processed[f] < ARTICLES_PER_FEED - 1
    /\ entry_index[f] < Len(entries[f])

\* Variant: a loop condition that admits one article beyond the quota.
LoopOvershoots(f) ==
    /\ articles_processed[f] <= ARTICLES_PER_FEED
    /\ entry_index[f] < Len(entries[f])

\* The `while` condition of both loops of process_feed.
LoopContinues(f) ==
    /\ articles_processed[f] < ARTICLES_PER_FEED
    /\ entry_index[f] < Len(entries[f])

\* Variant: the retry branch is taken only for a feed that has entries.
NeedsRetryWithEntries(f) ==
    /\ articles_processed[f] < ARTICLES_PER_FEED
    /\ MIN_WORD_COUNT # -1
    /\ entries[f] # <<>>

\* The `if` that guards the retry loop; main() passes no min_word_count, so
\* the parameter is MIN_WORD_COUNT.
NeedsRetry(f) ==
    /\ articles_processed[f] < ARTICLES_PER_FEED
    /\ MIN_WORD_COUNT # -1

\* The positions from which the next step is `with PROCESSED_ARTICLES_LOCK:`,
\* and the position inside the block.
LockSites ==
    [want_short |-> "in_short", want_mark |-> "in_mark",
     want_image |-> "in_image", want_posted |-> "in_posted",
     want_finish |-> "in_finish"]

\* The responses of the rewrite service: all four labelled sections, no
\* labelled section at all, an empty Content section, an empty Title line,
\* an empty response.
GoodResponses ==
    {[Title |-> "T", Meta |-> "m", Keywords |-> "k1, k2", Content |-> <<"C">>,
      raw |-> <<"raw">>],
     [raw |-> <<"raw">>]}

BadResponses ==
    {[Title |-> "T", Content |-> <<>>, raw |-> <<"raw">>],
     [Title |-> "", Content |-> <<"C">>, raw |-> <<"raw">>],
     [raw |-> <<>>]}

\* The dict rewrite_article builds from the response text.
ParseResponse(resp, title) ==
    [title |-> IF "Title" \in DOMAIN resp THEN resp.Title ELSE title,
     meta_description |-> IF "Meta" \in DOMAIN resp THEN resp.Meta ELSE "",
     keywords |-> IF "Keywords" \in DOMAIN resp THEN resp.Keywords ELSE "",
     content |-> IF "Content" \in DOMAIN resp THEN resp.Content ELSE resp.raw]

\* Variant: a validation that looks at the title only.
ValidTitleOnly(data) ==
    /\ data # None
    /\ data.title # ""

\* The validation at the head of post_to_blogger_draft.
ValidArticle(data) ==
    /\ data # None
    /\ data.title # ""
    /\ data.content # <<>>

\* ------------------------------------------------------------ driver
\* The module body: the three mandatory settings and the Groq client.
Startup ==
    /\ driver = "startup"
    /\ \E ok \in BOOLEAN :
        IF ok
        THEN /\ driver' = "pool"
             /\ queue' = InOrder(1, Cardinality(Feeds))
        ELSE /\ driver' = "exit1"
             /\ queue' = queue
    /\ UNCHANGED <<scenario, pc, entries, entry_index, articles_processed, pass,
                   article, PROCESSED_ARTICLES, SUMMARY, lock, SKIPPED_LOG,
                   faults, rewritten, skippedShort, pubCalls, authCalls,
                   insertCalls, postIds, authFailed, summaryFile>>

\* A pool thread takes the next feed.
StartFeed(f) ==
    /\ f \in Feeds
    /\ driver = "pool"
    /\ queue # <<>>
    /\ f = Head(queue)
    /\ PoolHasIdleThread
    /\ queue' = Tail(queue)
    /\ pc' = [pc EXCEPT ![f] = "fetch"]
    /\ UNCHANGED <<scenario, driver, entries, entry_index, articles_processed,
                   pass, article, PROCESSED_ARTICLES, SUMMARY, lock,
                   SKIPPED_LOG, faults, rewritten, skippedShort, pubCalls,
                   authCalls, insertCalls, postIds, authFailed, summaryFile>>

\* Variant: the summary is written as soon as every feed has been started.
GenerateSummaryEarly ==
    /\ driver = "pool"
    /\ queue = <<>>
    /\ summaryFile' = Append(summaryFile, SUMMARY)
    /\ driver' = "summary"
    /\ UNCHANGED <<scenario, queue, pc, entries, entry_index,
                   articles_processed, pass, article, PROCESSED_ARTICLES,
                   SUMMARY, lock, SKIPPED_LOG, faults, rewritten, skippedShort,
                   pubCalls, authCalls, insertCalls, postIds, authFailed>>

\* Leaving the `with ThreadPoolExecutor` block waits for every work item;
\* an exception of a work item stays in its future, which nobody reads.
GenerateSummary ==
    /\ driver = "pool"
    /\ queue = <<>>
    /\ \A f \in Feeds : pc[f] \in {"done", "aborted"}
    /\ summaryFile' = Append(summaryFile, SUMMARY)
    /\ driver' = "summary"
    /\ UNCHANGED <<scenario, queue, pc, entries, entry_index,
                   articles_processed, pass, article, PROCESSED_ARTICLES,
                   SUMMARY, lock, SKIPPED_LOG, faults, rewritten, skippedShort,
                   pubCalls, authCalls, insertCalls, postIds, authFailed>>

MainReturns ==
    /\ driver = "summary"
    /\ driver' = "exited"
    /\ UNCHANGED <<scenario, queue, pc, entries, entry_index,
                   articles_processed, pass, article, PROCESSED_ARTICLES,
                   SUMMARY, lock, SKIPPED_LOG, faults, rewritten, skippedShort,
                   pubCalls, authCalls, insertCalls, postIds, authFailed,
                   summaryFile>>

\* ------------------------------------------------------------ Feed Worker
runVars == <<scenario, driver, queue, summaryFile>>
callVars == <<rewritten, skippedShort, pubCalls, authCalls, insertCalls, postIds,
             authFailed>>

LogLine(f, title, reason) ==
    [title |-> title, feed |-> f, reason |-> reason]
LogLineCount(f, title, reason, word_count) ==
    [title |-> title, feed |-> f, reason |-> reason, word_count |-> word_count]

\* feedparser.parse and the locals of process_feed; a fetch that fails
\* yields no entries.
Fetch(f) ==
    /\ f \in Feeds
    /\ pc[f] = "fetch"
    /\ \E ok \in BOOLEAN :
        /\ ~ok => faults < MaxFaults
        /\ entries' = [entries EXCEPT
                         ![f] = IF ok THEN FeedEntries(scenario, f) ELSE <<>>]
        /\ faults' = IF ok THEN faults ELSE faults + 1
    /\ pc' = [pc EXCEPT ![f] = "loop"]
    /\ UNCHANGED <<runVars, callVars, entry_index, articles_processed, pass,
                   article, PROCESSED_ARTICLES, SUMMARY, lock, SKIPPED_LOG>>

\* The loop condition holds: take the next entry and enter the lock block
\* of the duplicate check.
NextEntry(f) ==
    /\ f \in Feeds
    /\ pc[f] = "loop"
    /\ LoopContinues(f)
    /\ lock = NoOwner
    /\ lock' = f
    /\ entry_index' = [entry_index EXCEPT ![f] = @ + 1]
    /\ pc' = [pc EXCEPT ![f] = "in_check"]
    /\ UNCHANGED <<runVars, callVars, entries, articles_processed, pass,
                   article, PROCESSED_ARTICLES, SUMMARY, SKIPPED_LOG, faults>>

\* The duplicate check of the primary loop, inside the lock block.
CheckDuplicate(f) ==
    /\ f \in Feeds
    /\ pc[f] = "in_check"
    /\ pass[f] = 1
    /\ lock = f
    /\ lock' = NoOwner
    /\ IF ArticleIdentifier(CurrentEntry(f)) \in PROCESSED_ARTICLES
       THEN /\ SKIPPED_LOG' = [SKIPPED_LOG EXCEPT ![f] =
                 Append(@, LogLine(f, EntryTitle(CurrentEntry(f)),
                                   "Duplicate article"))]
            /\ SUMMARY' = Bump("duplicates_skipped")
            /\ pc' = [pc EXCEPT ![f] = "loop"]
       ELSE /\ pc' = [pc EXCEPT ![f] = "filter"]
            /\ UNCHANGED <<SKIPPED_LOG, SUMMARY>>
    /\ UNCHANGED <<runVars, callVars, entries, entry_index,
                   articles_processed, pass, article, PROCESSED_ARTICLES,
                   faults>>

\* Variant: a retry loop that does not look at PROCESSED_ARTICLES.
RetryWithoutCheck(f) ==
    /\ f \in Feeds
    /\ pc[f] = "in_check"
    /\ pass[f] = 2
    /\ lock = f
    /\ lock' = NoOwner
    /\ pc' = [pc EXCEPT ![f] = "want_mark"]
    /\ UNCHANGED <<runVars, callVars, entries, entry_index,
                   articles_processed, pass, article, PROCESSED_ARTICLES,
                   SUMMARY, SKIPPED_LOG, faults>>

\* The duplicate check of the retry loop, inside the lock block.
RetryCheckDuplicate(f) ==
    /\ f \in Feeds
    /\ pc[f] = "in_check"
    /\ pass[f] = 2
    /\ lock = f
    /\ lock' = NoOwner
    /\ pc' = [pc EXCEPT ![f] =
                IF ArticleIdentifier(CurrentEntry(f)) \in PROCESSED_ARTICLES
                THEN "loop" ELSE "want_mark"]
    /\ UNCHANGED <<runVars, callVars, entries, entry_index,
                   articles_processed, pass, article, PROCESSED_ARTICLES,
                   SUMMARY, SKIPPED_LOG, faults>>

\* word_count < min_word_count
BelowWordCount(entry) ==
    WordCount(clean_text(EntryContent(entry))) < MIN_WORD_COUNT

\* clean_text and the word-count filter of the primary loop.
WordFilter(f) ==
    /\ f \in Feeds
    /\ pc[f] = "filter"
    /\ IF BelowWordCount(CurrentEntry(f))
       THEN /\ SKIPPED_LOG' = [SKIPPED_LOG EXCEPT ![f] =
                 Append(@, LogLineCount(f, EntryTitle(CurrentEntry(f)),
                     "Below word count",
                     WordCount(clean_text(EntryContent(CurrentEntry(f))))))]
            /\ skippedShort' = skippedShort \cup {<<f, entry_index[f]>>}
            /\ pc' = [pc EXCEPT ![f] = "want_short"]
       ELSE /\ pc' = [pc EXCEPT ![f] = "want_mark"]
            /\ UNCHANGED <<SKIPPED_LOG, skippedShort>>
    /\ UNCHANGED <<runVars, rewritten, pubCalls, authCalls, insertCalls,
                   postIds, authFailed, entries, entry_index,
                   articles_processed, pass, article, PROCESSED_ARTICLES,
                   SUMMARY, lock, faults>>

\* `with PROCESSED_ARTICLES_LOCK:` is entered.
Acquire(f) ==
    /\ f \in Feeds
    /\ pc[f] \in DOMAIN LockSites
    /\ lock = NoOwner
    /\ lock' = f
    /\ pc' = [pc EXCEPT ![f] = LockSites[pc[f]]]
    /\ UNCHANGED <<runVars, callVars, entries, entry_index,
                   articles_processed, pass, article, PROCESSED_ARTICLES,
                   SUMMARY, SKIPPED_LOG, faults>>

\* Variant: the short-article block also marks the identifier.
CountShortAndMark(f) ==
    /\ f \in Feeds
    /\ pc[f] = "in_short"
    /\ lock = f
    /\ lock' = NoOwner
    /\ SUMMARY' = Bump("articles_skipped_short")
    /\ PROCESSED_ARTICLES' =
           PROCESSED_ARTICLES \cup {ArticleIdentifier(CurrentEntry(f))}
    /\ pc' = [pc EXCEPT ![f] = "loop"]
    /\ UNCHANGED <<runVars, callVars, entries, entry_index,
                   articles_processed, pass, article, SKIPPED_LOG, faults>>

\* Variant: the short-article counter is incremented without the lock.
CountShortUnlocked(f) ==
    /\ f \in Feeds
    /\ pc[f] \in {"want_short", "in_short"}
    /\ lock' = IF lock = f THEN NoOwner ELSE lock
    /\ SUMMARY' = Bump("articles_skipped_short")
    /\ pc' = [pc EXCEPT ![f] = "loop"]
    /\ UNCHANGED <<runVars, callVars, entries, entry_index,
                   articles_processed, pass, article, PROCESSED_ARTICLES,
                   SKIPPED_LOG, faults>>

\* SUMMARY["articles_skipped_short"] += 1 inside the lock block.
CountShort(f) ==
    /\ f \in Feeds
    /\ pc[f] = "in_short"
    /\ lock = f
    /\ lock' = NoOwner
    /\ SUMMARY' = Bump("articles_skipped_short")
    /\ pc' = [pc EXCEPT ![f] = "loop"]
    /\ UNCHANGED <<runVars, callVars, entries, entry_index,
                   articles_processed, pass, article, PROCESSED_ARTICLES,
                   SKIPPED_LOG, faults>>

\* Variant: the rewrite call is made inside the lock block of the insertion.
MarkKeepsLock(f) ==
    /\ f \in Feeds
    /\ pc[f] = "in_mark"
    /\ lock = f
    /\ lock' = lock
    /\ PROCESSED_ARTICLES' =
           PROCESSED_ARTICLES \cup {ArticleIdentifier(CurrentEntry(f))}
    /\ pc' = [pc EXCEPT ![f] = "rewrite"]
    /\ UNCHANGED <<runVars, callVars, entries, entry_index,
                   articles_processed, pass, article, SUMMARY, SKIPPED_LOG,
                   faults>>

\* PROCESSED_ARTICLES.add(article_identifier), in either loop.
Mark(f) ==
    /\ f \in Feeds
    /\ pc[f] = "in_mark"
    /\ lock = f
    /\ lock' = NoOwner
    /\ PROCESSED_ARTICLES' =
           PROCESSED_ARTICLES \cup {ArticleIdentifier(CurrentEntry(f))}
    /\ pc' = [pc EXCEPT ![f] = "rewrite"]
    /\ UNCHANGED <<runVars, callVars, entries, entry_index,
                   articles_processed, pass, article, SUMMARY, SKIPPED_LOG,
                   faults>>

\* Variant: an article whose rewrite failed counts towards the quota.
RewriteCountsFailure(f) ==
    /\ f \in Feeds
    /\ pc[f] = "rewrite"
    /\ rewritten' = rewritten \cup {<<f, entry_index[f], pass[f]>>}
    /\ \/ /\ faults < MaxFaults
          /\ faults' = faults + 1
          /\ article' = [article EXCEPT ![f] = None]
          /\ articles_processed' = [articles_processed EXCEPT ![f] = @ + 1]
          /\ pc' = [pc EXCEPT ![f] = "sleep"]
       \/ /\ \E resp \in GoodResponses :
                article' = [article EXCEPT ![f] =
                    ParseResponse(resp, EntryTitle(CurrentEntry(f)))]
          /\ pc' = [pc EXCEPT ![f] = "post"]
          /\ UNCHANGED <<faults, articles_processed>>
       \/ /\ faults < MaxFaults
          /\ faults' = faults + 1
          /\ \E resp \in BadResponses :
                article' = [article EXCEPT ![f] =
                    ParseResponse(resp, EntryTitle(CurrentEntry(f)))]
          /\ pc' = [pc EXCEPT ![f] = "post"]
          /\ UNCHANGED articles_processed
    /\ UNCHANGED <<runVars, entries, entry_index, pass,
                   PROCESSED_ARTICLES, SUMMARY, lock, SKIPPED_LOG, skippedShort,
                   pubCalls, authCalls, insertCalls, postIds, authFailed>>

\* rewrite_article: one call of the rewrite service.  An exception makes it
\* return None; any response text is parsed into a dict.
Rewrite(f) ==
    /\ f \in Feeds
    /\ pc[f] = "rewrite"
    /\ rewritten' = rewritten \cup {<<f, entry_index[f], pass[f]>>}
    /\ \/ /\ faults < MaxFaults
          /\ faults' = faults + 1
          /\ article' = [article EXCEPT ![f] = None]
          /\ pc' = [pc EXCEPT ![f] = "sleep"]
       \/ /\ \E resp \in GoodResponses :
                article' = [article EXCEPT ![f] =
                    ParseResponse(resp, EntryTitle(CurrentEntry(f)))]
          /\ pc' = [pc EXCEPT ![f] = "post"]
          /\ UNCHANGED faults
       \/ /\ faults < MaxFaults
          /\ faults' = faults + 1
          /\ \E resp \in BadResponses :
                article' = [article EXCEPT ![f] =
                    ParseResponse(resp, EntryTitle(CurrentEntry(f)))]
          /\ pc' = [pc EXCEPT ![f] = "post"]
    /\ UNCHANGED <<runVars, entries, entry_index, articles_processed, pass,
                   PROCESSED_ARTICLES, SUMMARY, lock, SKIPPED_LOG, skippedShort,
                   pubCalls, authCalls, insertCalls, postIds, authFailed>>

\* Variant: the image counter is incremented for every valid article.
ValidateCountsEveryArticle(f) ==
    /\ f \in Feeds
    /\ pc[f] = "post"
    /\ pubCalls' = [pubCalls EXCEPT ![f][pass[f]] = @ + 1]
    /\ IF ~ValidArticle(article[f])
       THEN /\ articles_processed' = [articles_processed EXCEPT ![f] = @ + 1]
            /\ pc' = [pc EXCEPT ![f] = "sleep"]
            /\ UNCHANGED article
       ELSE /\ article' = [article EXCEPT ![f].content =
                    IF extract_image(CurrentEntry(f)) # None
                    THEN <<"img">> \o @ ELSE @]
            /\ pc' = [pc EXCEPT ![f] = "want_image"]
            /\ UNCHANGED articles_processed
    /\ UNCHANGED <<runVars, entries, entry_index, pass, PROCESSED_ARTICLES,
                   SUMMARY, lock, SKIPPED_LOG, faults, rewritten, skippedShort,
                   authCalls, insertCalls, postIds, authFailed>>

\* post_to_blogger_draft up to the lock block of the image counter: the
\* validation, the image element, and without an image the attribution.
\* A rejected article makes the Publisher return None, and process_feed
\* counts the article.
Validate(f) ==
    /\ f \in Feeds
    /\ pc[f] = "post"
    /\ pubCalls' = [pubCalls EXCEPT ![f][pass[f]] = @ + 1]
    /\ IF ~ValidArticle(article[f])
       THEN /\ articles_processed' = [articles_processed EXCEPT ![f] = @ + 1]
            /\ pc' = [pc EXCEPT ![f] = "sleep"]
            /\ UNCHANGED article
       ELSE IF extract_image(CurrentEntry(f)) # None
       THEN /\ article' = [article EXCEPT ![f].content = <<"img">> \o @]
            /\ pc' = [pc EXCEPT ![f] = "want_image"]
            /\ UNCHANGED articles_processed
       ELSE /\ article' = [article EXCEPT ![f].content = @ \o <<"source">>]
            /\ pc' = [pc EXCEPT ![f] = "auth"]
            /\ UNCHANGED articles_processed
    /\ UNCHANGED <<runVars, entries, entry_index, pass, PROCESSED_ARTICLES,
                   SUMMARY, lock, SKIPPED_LOG, faults, rewritten, skippedShort,
                   authCalls, insertCalls, postIds, authFailed>>

\* SUMMARY["images_included"] += 1 inside the lock block, then the
\* attribution.
CountImage(f) ==
    /\ f \in Feeds
    /\ pc[f] = "in_image"
    /\ lock = f
    /\ lock' = NoOwner
    /\ SUMMARY' = Bump("images_included")
    /\ article' = [article EXCEPT ![f].content = @ \o <<"source">>]
    /\ pc' = [pc EXCEPT ![f] = "auth"]
    /\ UNCHANGED <<runVars, callVars, entries, entry_index,
                   articles_processed, pass, PROCESSED_ARTICLES, SKIPPED_LOG,
                   faults>>

\* get_blogger_service: a failure calls exit(1), which raises SystemExit in
\* the worker thread; `except Exception` does not catch it and the executor
\* stores it in the future of the work item.
Authenticate(f) ==
    /\ f \in Feeds
    /\ pc[f] = "auth"
    /\ authCalls' = [authCalls EXCEPT ![f] = @ + 1]
    /\ \/ /\ pc' = [pc EXCEPT ![f] = "insert"]
          /\ UNCHANGED <<faults, authFailed>>
       \/ /\ faults < MaxFaults
          /\ faults' = faults + 1
          /\ authFailed' = TRUE
          /\ pc' = [pc EXCEPT ![f] = "aborted"]
    /\ UNCHANGED <<runVars, entries, entry_index, articles_processed, pass,
                   article, PROCESSED_ARTICLES, SUMMARY, lock, SKIPPED_LOG,
                   rewritten, skippedShort, pubCalls, insertCalls, postIds>>

\* Variant: a failed posts.insert takes the next entry without the delay.
InsertFailureSkipsDelay(f) ==
    /\ f \in Feeds
    /\ pc[f] = "insert"
    /\ insertCalls' = [insertCalls EXCEPT ![f] = @ + 1]
    /\ \/ /\ pc' = [pc EXCEPT ![f] = "want_posted"]
          /\ UNCHANGED <<faults, articles_processed, article>>
       \/ /\ faults < MaxFaults
          /\ faults' = faults + 1
          /\ articles_processed' = [articles_processed EXCEPT ![f] = @ + 1]
          /\ article' = [article EXCEPT ![f] = None]
          /\ pc' = [pc EXCEPT ![f] = "loop"]
    /\ UNCHANGED <<runVars, entries, entry_index, pass,
                   PROCESSED_ARTICLES, SUMMARY, lock, SKIPPED_LOG, rewritten,
                   skippedShort, pubCalls, authCalls, postIds, authFailed>>

\* posts.insert(...).execute(); an exception makes the Publisher return
\* None, and process_feed counts the article.
Insert(f) ==
    /\ f \in Feeds
    /\ pc[f] = "insert"
    /\ insertCalls' = [insertCalls EXCEPT ![f] = @ + 1]
    /\ \/ /\ pc' = [pc EXCEPT ![f] = "want_posted"]
          /\ UNCHANGED <<faults, articles_processed>>
       \/ /\ faults < MaxFaults
          /\ faults' = faults + 1
          /\ articles_processed' = [articles_processed EXCEPT ![f] = @ + 1]
          /\ pc' = [pc EXCEPT ![f] = "sleep"]
    /\ UNCHANGED <<runVars, entries, entry_index, pass, article,
                   PROCESSED_ARTICLES, SUMMARY, lock, SKIPPED_LOG, rewritten,
                   skippedShort, pubCalls, authCalls, postIds, authFailed>>

\* SUMMARY["articles_posted"] += 1 inside the lock block; the Publisher
\* returns the post identifier and process_feed counts the article.
CountPosted(f) ==
    /\ f \in Feeds
    /\ pc[f] = "in_posted"
    /\ lock = f
    /\ lock' = NoOwner
    /\ SUMMARY' = Bump("articles_posted")
    /\ postIds' = [postIds EXCEPT ![f] = @ + 1]
    /\ articles_processed' = [articles_processed EXCEPT ![f] = @ + 1]
    /\ pc' = [pc EXCEPT ![f] = "sleep"]
    /\ UNCHANGED <<runVars, entries, entry_index, pass, article,
                   PROCESSED_ARTICLES, SKIPPED_LOG, faults, rewritten,
                   skippedShort, pubCalls, authCalls, insertCalls, authFailed>>

\* time.sleep(3); the rewritten article is not read again.
Sleep(f) ==
    /\ f \in Feeds
    /\ pc[f] = "sleep"
    /\ article' = [article EXCEPT ![f] = None]
    /\ pc' = [pc EXCEPT ![f] = "loop"]
    /\ UNCHANGED <<runVars, callVars, entries, entry_index,
                   articles_processed, pass, PROCESSED_ARTICLES, SUMMARY,
                   lock, SKIPPED_LOG, faults>>

\* The primary loop ends: the retry loop starts at the first entry, or the
\* worker goes on to its end.
EndPrimary(f) ==
    /\ f \in Feeds
    /\ pc[f] = "loop"
    /\ pass[f] = 1
    /\ ~LoopContinues(f)
    /\ IF NeedsRetry(f)
       THEN /\ SKIPPED_LOG' = [SKIPPED_LOG EXCEPT ![f] =
                 Append(@, LogLine(f, "N/A", "Insufficient articles"))]
            /\ entry_index' = [entry_index EXCEPT ![f] = 0]
            /\ pass' = [pass EXCEPT ![f] = 2]
            /\ pc' = pc
       ELSE /\ pc' = [pc EXCEPT ![f] = "want_finish"]
            /\ UNCHANGED <<SKIPPED_LOG, entry_index, pass>>
    /\ UNCHANGED <<runVars, callVars, entries, articles_processed, article,
                   PROCESSED_ARTICLES, SUMMARY, lock, faults>>

\* The retry loop ends.
EndRetry(f) ==
    /\ f \in Feeds
    /\ pc[f] = "loop"
    /\ pass[f] = 2
    /\ ~LoopContinues(f)
    /\ pc' = [pc EXCEPT ![f] = "want_finish"]
    /\ UNCHANGED <<runVars, callVars, entries, entry_index,
                   articles_processed, pass, article, PROCESSED_ARTICLES,
                   SUMMARY, lock, SKIPPED_LOG, faults>>

\* SUMMARY["feeds_processed"] += 1 inside the lock block; process_feed
\* returns articles_processed.
Finish(f) ==
    /\ f \in Feeds
    /\ pc[f] = "in_finish"
    /\ lock = f
    /\ lock' = NoOwner
    /\ SUMMARY' = Bump("feeds_processed")
    /\ pc' = [pc EXCEPT ![f] = "done"]
    /\ UNCHANGED <<runVars, callVars, entries, entry_index,
                   articles_processed, pass, article, PROCESSED_ARTICLES,
                   SKIPPED_LOG, faults>>

\* ------------------------------------------------------------ specification
Next ==
    \/ Startup
    \/ GenerateSummary
    \/ MainReturns
    \/ \E f \in FeedIds : StartFeed(f)
    \/ \E f \in FeedIds : Fetch(f)
    \/ \E f \in FeedIds : NextEntry(f)
    \/ \E f \in FeedIds : CheckDuplicate(f)
    \/ \E f \in FeedIds : RetryCheckDuplicate(f)
    \/ \E f \in FeedIds : WordFilter(f)
    \/ \E f \in FeedIds : Acquire(f)
    \/ \E f \in FeedIds : CountShort(f)
    \/ \E f \in FeedIds : Mark(f)
    \/ \E f \in FeedIds : Rewrite(f)
    \/ \E f \in FeedIds : Validate(f)
    \/ \E f \in FeedIds : CountImage(f)
    \/ \E f \in FeedIds : Authenticate(f)
    \/ \E f \in FeedIds : Insert(f)
    \/ \E f \in FeedIds : CountPosted(f)
    \/ \E f \in FeedIds : Sleep(f)
    \/ \E f \in FeedIds : EndPrimary(f)
    \/ \E f \in FeedIds : EndRetry(f)
    \/ \E f \in FeedIds : Finish(f)

Spec == Init /\ [][Next]_vars

\* ------------------------------------------------------------ properties
IdentifierOf(f, i) == ArticleIdentifier(entries[f][i])

\* The entries carrying identifier id that were passed to rewrite_article.
RewrittenWith(id) == {r \in rewritten : IdentifierOf(r[1], r[2]) = id}

\* The entries for which PROCESSED_ARTICLES.add has been executed.
MarkedEntries ==
    {<<r[1], r[2]>> : r \in rewritten}
        \cup {<<f, entry_index[f]>> : f \in {g \in Feeds : pc[g] = "rewrite"}}

\* The step of worker f that leaves the lock block of a duplicate check.
ChecksEntry(f) == pc[f] = "in_check" /\ pc'[f] # "in_check"

\* C1: for every article identifier, at most one entry carrying it is passed
\* to the rewrite service in a run, within a feed or across feeds whose
\* workers run concurrently.
C1_OneRewritePerIdentifier ==
    \A r1 \in rewritten : \A r2 \in rewritten :
        IdentifierOf(r1[1], r1[2]) = IdentifierOf(r2[1], r2[2]) => r1 = r2

\* C2: whenever a worker's duplicate check (primary or retry loop) meets an
\* entry whose identifier was rewritten earlier in the run,
\* duplicates_skipped grows by exactly one in that step and the entry is not
\* rewritten.
C2_EveryDuplicateCounted ==
    [][\A f \in Feeds :
          (ChecksEntry(f)
              /\ RewrittenWith(IdentifierOf(f, entry_index[f])) # {})
          => /\ SUMMARY'.duplicates_skipped = SUMMARY.duplicates_skipped + 1
             /\ pc'[f] = "loop"]_vars

\* The entries of feed f of scenario s that qualify: at or above the minimum
\* word count, and carrying an identifier that no earlier entry of the feed
\* at or above the minimum and no entry of another feed carries.
QualifyingIn(s, f) ==
    {i \in 1..Len(FeedEntries(s, f)) :
        /\ ~BelowWordCount(FeedEntries(s, f)[i])
        /\ \A j \in 1..(i - 1) :
              BelowWordCount(FeedEntries(s, f)[j])
                  \/ ArticleIdentifier(FeedEntries(s, f)[j])
                         # ArticleIdentifier(FeedEntries(s, f)[i])
        /\ \A g \in RSS_FEEDS(s) \ {f} :
              \A j \in 1..Len(FeedEntries(s, g)) :
                  ArticleIdentifier(FeedEntries(s, g)[j])
                      # ArticleIdentifier(FeedEntries(s, f)[i])}

QualifyingTable ==
    [s \in Scenarios |-> [f \in RSS_FEEDS(s) |-> QualifyingIn(s, f)]]

\* The qualifying entries among those the worker of feed f fetched.
Qualifying(f) ==
    IF entries[f] = <<>> THEN {} ELSE QualifyingTable[scenario][f]

RewrittenBy(f) == {r \in rewritten : r[1] = f}
PubCalls(f) == pubCalls[f][1] + pubCalls[f][2]

\* The articles worker f passed to the rewrite service that did not reach
\* posts.insert: the rewrite failed or the Publisher rejected the article.
Dropped(f) == Cardinality(RewrittenBy(f)) - insertCalls[f]

Returned(f) == pc[f] = "done"

C4_CountsOnlyPosted ==
    \A f \in Feeds :
        pc[f] \in {"loop", "want_finish", "in_finish", "done"}
        => articles_processed[f] = postIds[f]

\* The step of worker f that applies the word-count filter to a short entry.
SkipsShort(f) == pc[f] = "filter" /\ pc'[f] = "want_short"

\* The step of worker f that checks, in the retry loop, an entry it skipped
\* as short in the primary loop.
RechecksShort(f) ==
    /\ ChecksEntry(f)
    /\ pass[f] = 2
    /\ <<f, entry_index[f]>> \in skippedShort

\* What C5 says of the primary pass: the filter does not rewrite a short
\* entry, logs its word count and counts it in articles_skipped_short.
ShortEntrySkipped ==
    /\ [][\A f \in Feeds :
             (pc[f] = "filter" /\ pc'[f] # "filter"
                  /\ BelowWordCount(CurrentEntry(f)))
             => /\ SkipsShort(f)
                /\ rewritten' = rewritten
                /\ SKIPPED_LOG'[f] = Append(SKIPPED_LOG[f],
                       LogLineCount(f, EntryTitle(CurrentEntry(f)),
                           "Below word count",
                           WordCount(clean_text(EntryContent(CurrentEntry(f))))))
         ]_vars
    /\ [][\A f \in Feeds :
             (pc[f] = "in_short" /\ pc'[f] # "in_short")
             => SUMMARY' = [SUMMARY EXCEPT !.articles_skipped_short = @ + 1]
         ]_vars
    /\ [](\A f \in Feeds :
             pc[f] \in {"want_short", "in_short"}
             => <<f, entry_index[f]>> \in skippedShort
                    /\ <<f, entry_index[f], 1>> \notin rewritten)

\* C5 as stated: a short entry is skipped, logged and counted in the primary
\* pass, and the retry loop, if entered, does not reject it as a duplicate
\* or as too short.
C5_ShortStaysEligible ==
    /\ ShortEntrySkipped
    /\ [][\A f \in Feeds : RechecksShort(f) => pc'[f] = "want_mark"]_vars

\* C5 amended: a short entry that reaches the filter is skipped, logged and
\* counted in the primary pass; skipping it does not mark its identifier;
\* the retry loop applies no word-count filter and rejects it as a duplicate
\* only when another entry carrying its identifier has been marked.
C5_ShortEligibleUnlessMarked ==
    /\ ShortEntrySkipped
    /\ [][\A f \in Feeds :
             (pc[f] \in {"filter", "want_short", "in_short"}
                  /\ pc'[f] # pc[f] /\ BelowWordCount(CurrentEntry(f)))
             => PROCESSED_ARTICLES' = PROCESSED_ARTICLES]_vars
    /\ [](\A f \in Feeds :
             pass[f] = 2 => pc[f] \notin {"filter", "want_short", "in_short"})
    /\ [][\A f \in Feeds :
             RechecksShort(f)
             => \/ pc'[f] = "want_mark"
                \/ \E m \in MarkedEntries :
                      /\ m # <<f, entry_index[f]>>
                      /\ IdentifierOf(m[1], m[2])
                             = IdentifierOf(f, entry_index[f])]_vars

C5_Witness ==
    \E r \in rewritten :
        /\ r[3] = 2
        /\ <<r[1], r[2]>> \in skippedShort
        /\ SUMMARY.articles_skipped_short > 0

C7_PoolBound == Cardinality(Active) <= MAX_WORKERS

C7_Witness == Cardinality(Active) = MAX_WORKERS /\ queue # <<>>

\* C8: in a run that got past startup no failing external call aborts a
\* Feed Worker, and when the summary is written every Feed Worker has ended
\* having incremented feeds_processed.
C8_EveryWorkerCompletes ==
    /\ \A f \in Feeds : pc[f] # "aborted"
    /\ driver \in {"summary", "exited"}
       => /\ \A f \in Feeds : Returned(f)
          /\ SUMMARY.feeds_processed = Cardinality(Feeds)

\* C9: an authentication failure of the publishing service ends the process
\* at once with a nonzero exit; nothing was rewritten or published before
\* it, and no summary is written.
C9_AuthFailureIsFatal ==
    authFailed
    => /\ driver = "exit1"
       /\ rewritten = {}
       /\ \A f \in Feeds : PubCalls(f) = 0
       /\ summaryFile = <<>>

\* C10: a Publisher call with an article whose title or content is empty
\* returns None without authenticating, without calling posts.insert and
\* without changing a counter of SUMMARY.
C10_InvalidArticleRejected ==
    [][\A f \in Feeds :
          (pc[f] = "post" /\ pc'[f] # "post"
               /\ (article[f].title = "" \/ article[f].content = <<>>))
          => /\ pc'[f] = "sleep"
             /\ postIds' = postIds
             /\ authCalls' = authCalls
             /\ insertCalls' = insertCalls
             /\ SUMMARY' = SUMMARY]_vars

C10_Witness ==
    \E f \in Feeds :
        /\ pc[f] = "sleep"
        /\ article[f] # None
        /\ (article[f].title = "" \/ article[f].content = <<>>)
        /\ PubCalls(f) > authCalls[f]

\* The step of worker f in which feedparser.parse fails.
FetchFails(f) == pc[f] = "fetch" /\ pc'[f] # "fetch" /\ faults' # faults

\* Worker f is past its fetch and has no entries.
RunsOnNoEntries(f) == pc[f] \notin {"queued", "fetch"} /\ entries[f] = <<>>

\* C11: a fetch that fails leaves the worker with no entries and does not
\* abort it; a worker without entries calls neither the rewrite service nor
\* the Publisher, takes the retry branch (logging it), ends with
\* articles_processed = 0, and increments feeds_processed by exactly one when
\* it returns.
C11_FailedFetchYieldsNothing ==
    /\ [][\A f \in Feeds :
             FetchFails(f) => entries'[f] = <<>> /\ pc'[f] = "loop"]_vars
    /\ [](\A f \in Feeds :
             RunsOnNoEntries(f)
             => /\ RewrittenBy(f) = {}
                /\ PubCalls(f) = 0
                /\ articles_processed[f] = 0
                /\ pc[f] \in {"loop", "want_finish", "in_finish", "done"}
                /\ pc[f] # "loop"
                   => /\ pass[f] = 2
                      /\ SKIPPED_LOG[f]
                             = <<LogLine(f, "N/A", "Insufficient articles")>>)
    /\ [][\A f \in Feeds :
             (pc[f] = "in_finish" /\ pc'[f] # "in_finish")
             => /\ pc'[f] = "done"
                /\ SUMMARY' = [SUMMARY EXCEPT !.feeds_processed = @ + 1]]_vars
    /\ [](SUMMARY.feeds_processed = Cardinality({f \in Feeds : Returned(f)}))

C11_Witness ==
    \E f \in Feeds :
        /\ Returned(f)
        /\ entries[f] = <<>>
        /\ FeedEntries(scenario, f) # <<>>
        /\ pass[f] = 2
        /\ driver = "exited"

\* Worker f has a current entry, and extract_image finds no image in it.
WithoutImage(f) ==
    /\ entry_index[f] \in 1..Len(entries[f])
    /\ extract_image(CurrentEntry(f)) = None

\* C12: images_included changes only by the increment of a worker that is
\* publishing an entry in which extract_image found an image URL; no step of
\* a worker whose current entry has no image URL changes it, whether the
\* Publisher then posts the article, rejects it or fails.
C12_ImageCountedOnlyWithImage ==
    /\ [][SUMMARY'.images_included # SUMMARY.images_included
          => \E f \in Feeds :
                /\ pc[f] = "in_image"
                /\ pc'[f] = "auth"
                /\ ~WithoutImage(f)
                /\ SUMMARY' = [SUMMARY EXCEPT !.images_included = @ + 1]]_vars
    /\ [][\A f \in Feeds :
             (WithoutImage(f) /\ pc'[f] # pc[f])
             => /\ SUMMARY'.images_included = SUMMARY.images_included
                /\ pc'[f] \notin {"want_image", "in_image"}]_vars
    /\ [](\A f \in Feeds :
             pc[f] \in {"want_image", "in_image"} => ~WithoutImage(f))

C12_Witness ==
    \E f \in Feeds :
        /\ pc[f] = "sleep"
        /\ WithoutImage(f)
        /\ PubCalls(f) = 1
        /\ postIds[f] = 1
        /\ SUMMARY.articles_posted = 1
        /\ SUMMARY.images_included = 0

\* The positions from which the next step of a worker is a network call:
\* the feed fetch, the rewrite-service call, and the two calls of the
\* Publisher (authentication, posts.insert).
NetworkCall == {"fetch", "rewrite", "auth", "insert"}

\* The positions inside a `with PROCESSED_ARTICLES_LOCK:` block.
InLockBlock ==
    {"in_check"} \cup {LockSites[site] : site \in DOMAIN LockSites}

Counters == DOMAIN SUMMARY

\* One counter of SUMMARY grows by one, the others keep their value.
OneIncrement ==
    \E c \in Counters : SUMMARY' = [SUMMARY EXCEPT ![c] = @ + 1]

\* The lock is held by a worker only inside a lock block, and no network
\* call is made by the worker that holds it.
NoLockAcrossNetworkCall ==
    /\ [](lock # NoOwner
             => lock \in Feeds /\ pc[lock] \in InLockBlock)
    /\ [][\A f \in Feeds :
             (pc[f] \in NetworkCall /\ pc'[f] # pc[f])
             => lock # f /\ lock' = lock]_vars
    /\ [][\A f \in Feeds :
             (lock = f /\ pc'[f] # pc[f])
             => /\ lock' = NoOwner
                /\ faults' = faults
                /\ \/ /\ pc[f] = "in_check"
                      /\ PROCESSED_ARTICLES' = PROCESSED_ARTICLES
                      /\ SUMMARY' = SUMMARY
                         \/ SUMMARY' = [SUMMARY EXCEPT
                                           !.duplicates_skipped = @ + 1]
                   \/ /\ pc[f] = "in_mark"
                      /\ PROCESSED_ARTICLES' = PROCESSED_ARTICLES
                             \cup {ArticleIdentifier(CurrentEntry(f))}
                      /\ SUMMARY' = SUMMARY
                   \/ /\ pc[f] \notin {"in_check", "in_mark"}
                      /\ PROCESSED_ARTICLES' = PROCESSED_ARTICLES
                      /\ OneIncrement]_vars

\* C13 as stated: no worker holds the lock across one of its network calls,
\* and while the lock is held nothing is done but a membership check, an
\* insertion or a counter increment; in particular the skip log is not
\* written.
C13_LockOnlyForCheckInsertIncrement ==
    /\ NoLockAcrossNetworkCall
    /\ [][\A f \in Feeds :
             lock = f => SKIPPED_LOG'[f] = SKIPPED_LOG[f]]_vars

\* C13 amended: no worker holds the lock across one of its network calls;
\* the lock is held only for a membership check, an insertion or a counter
\* increment, and the skip log is written under the lock only by the
\* duplicate check of the primary loop, together with its increment of
\* duplicates_skipped.
C13_LockOnlyForShortSections ==
    /\ NoLockAcrossNetworkCall
    /\ [][\A f \in Feeds :
             (lock = f /\ SKIPPED_LOG'[f] # SKIPPED_LOG[f])
             => /\ pc[f] = "in_check"
                /\ pass[f] = 1
                /\ SUMMARY' = [SUMMARY EXCEPT !.duplicates_skipped = @ + 1]
                /\ SKIPPED_LOG'[f] =
                       Append(SKIPPED_LOG[f],
                              LogLine(f, EntryTitle(CurrentEntry(f)),
                                      "Duplicate article"))]_vars

C13_Witness ==
    \E f \in Feeds : \E g \in Feeds \ {f} :
        /\ lock = f
        /\ pc[f] = "in_check"
        /\ ArticleIdentifier(CurrentEntry(f)) \in PROCESSED_ARTICLES
        /\ pc[g] \in NetworkCall

\* The step of worker f in which rewrite_article returns None.
RewriteFails(f) ==
    pc[f] = "rewrite" /\ pc'[f] # "rewrite" /\ article'[f] = None

\* Worker f is at the throttle delay after a rewrite that failed.
AfterFailedRewrite(f) == pc[f] = "sleep" /\ article[f] = None

\* C14: when rewrite_article fails, no counter of SUMMARY changes, the
\* Publisher is not called for the article, articles_processed keeps its
\* value, and the worker goes through the delay back to the loop condition,
\* which takes the entry after the failed one.
C14_FailedRewriteDropsArticle ==
    /\ [][\A f \in Feeds :
             RewriteFails(f)
             => /\ pc'[f] = "sleep"
                /\ SUMMARY' = SUMMARY
                /\ pubCalls' = pubCalls
                /\ articles_processed' = articles_processed
                /\ entry_index' = entry_index]_vars
    /\ [][\A f \in Feeds :
             (AfterFailedRewrite(f) /\ pc'[f] # pc[f])
             => /\ pc'[f] = "loop"
                /\ SUMMARY' = SUMMARY
                /\ pubCalls' = pubCalls
                /\ articles_processed' = articles_processed
                /\ entry_index' = entry_index]_vars
    /\ [][\A f \in Feeds :
             (pc[f] = "loop" /\ pc'[f] = "in_check")
             => entry_index'[f] = entry_index[f] + 1]_vars
    /\ [](\A f \in Feeds :
             pc[f] \in {"post", "want_image", "in_image", "auth", "insert",
                        "want_posted", "in_posted"}
             => article[f] # None)

C14_Witness ==
    \E f \in Feeds :
        /\ pc[f] = "rewrite"
        /\ RewrittenBy(f) = {<<f, entry_index[f] - 1, 1>>}
        /\ PubCalls(f) = 0
        /\ articles_processed[f] = 0
        /\ SUMMARY.articles_posted = 0

\* The sum of fn[1] .. fn[n].
RECURSIVE SumTo(_, _)
SumTo(fn, n) == IF n = 0 THEN 0 ELSE fn[n] + SumTo(fn, n - 1)

\* The increment events of a run, counted from what the workers did rather
\* than from SUMMARY: the workers that returned, the post identifiers
\* obtained, the short entries skipped whose increment is not pending, and
\* the duplicate lines of the skip log.
PostedEvents == SumTo(postIds, Cardinality(Feeds))

ShortEvents ==
    Cardinality(skippedShort)
        - Cardinality({f \in Feeds : pc[f] \in {"want_short", "in_short"}})

DuplicateEvents ==
    SumTo([f \in Feeds |->
              Cardinality({i \in 1..Len(SKIPPED_LOG[f]) :
                              SKIPPED_LOG[f][i].reason = "Duplicate article"})],
          Cardinality(Feeds))

\* C15: every change of SUMMARY is an increment by one of one counter, made
\* by the worker that holds the lock; no counter ever decreases, and each
\* counter equals the number of its increment events.
C15_IncrementsUnderLock ==
    /\ [][SUMMARY' # SUMMARY
          => /\ lock \in Feeds
             /\ pc[lock] \in InLockBlock
             /\ pc'[lock] # pc[lock]
             /\ \A g \in Feeds \ {lock} : pc'[g] = pc[g]
             /\ OneIncrement]_vars
    /\ [][\A c \in Counters : SUMMARY'[c] >= SUMMARY[c]]_vars
    /\ [](/\ SUMMARY.feeds_processed = Cardinality({f \in Feeds : Returned(f)})
          /\ SUMMARY.articles_posted = PostedEvents
          /\ SUMMARY.articles_skipped_short = ShortEvents
          /\ SUMMARY.duplicates_skipped = DuplicateEvents)

C15_Witness ==
    \E f \in Feeds : \E g \in Feeds \ {f} :
        /\ lock = f
        /\ pc[f] = "in_posted"
        /\ pc[g] = "want_posted"
        /\ SUMMARY.images_included = 1

\* The work item of feed f has ended: process_feed returned, or the
\* SystemExit of an authentication failure ended it.
Ended(f) == pc[f] \in {"done", "aborted"}

\* C16: the summary is written at most once, exactly once in a run that
\* reaches the end of main(), and only when every feed has been started and
\* every Feed Worker has ended; it records the values SUMMARY has then, and
\* SUMMARY does not change afterwards.
C16_SummaryOnceAfterWorkers ==
    /\ [](Len(summaryFile) <= 1)
    /\ [](driver \in {"startup", "pool", "exit1"} => summaryFile = <<>>)
    /\ [](driver \in {"summary", "exited"} => Len(summaryFile) = 1)
    /\ [](summaryFile # <<>>
             => /\ queue = <<>>
                /\ \A f \in Feeds : Ended(f)
                /\ lock = NoOwner
                /\ summaryFile[1] = SUMMARY)
    /\ [][summaryFile # <<>>
          => SUMMARY' = SUMMARY /\ summaryFile' = summaryFile]_vars

C16_Witness ==
    /\ driver = "exited"
    /\ Len(summaryFile) = 1
    /\ Cardinality(Feeds) >= 2
    /\ summaryFile[1].feeds_processed = Cardinality(Feeds)
    /\ summaryFile[1].articles_posted >= 2

\* The positions of a worker between its rewrite-service call and the
\* throttle delay: the Publisher call for the rewritten article.
InPublisher ==
    {"post", "want_image", "in_image", "auth", "insert", "want_posted",
     "in_posted"}

\* The state of worker f that process_feed reads or writes.
WorkerState(f) ==
    <<pc[f], entry_index[f], articles_processed[f], pass[f], article[f]>>

\* C17: after a rewrite-service call a worker reaches the loop condition,
\* and with it the next call in either loop or across the two loops, only
\* through time.sleep(3), whether the rewrite failed, the Publisher rejected
\* the article, posts.insert failed or the post succeeded; the delay is one
\* step of the worker during which it does nothing else; a worker ended by an
\* authentication failure makes no further call.
C17_ThrottleBetweenRewrites ==
    /\ [][\A f \in Feeds :
             (pc[f] = "rewrite" /\ pc'[f] # pc[f])
             => /\ <<f, entry_index[f], pass[f]>> \in rewritten'
                /\ pc'[f] \in InPublisher \cup {"sleep"}]_vars
    /\ [][\A f \in Feeds :
             (pc[f] \in InPublisher /\ pc'[f] # pc[f])
             => pc'[f] \in InPublisher \cup {"sleep", "aborted"}]_vars
    /\ [][\A f \in Feeds :
             (pc[f] = "sleep" /\ WorkerState(f)' # WorkerState(f))
             => /\ pc'[f] = "loop"
                /\ pass'[f] = pass[f]
                /\ entry_index'[f] = entry_index[f]
                /\ articles_processed'[f] = articles_processed[f]
                /\ rewritten' = rewritten]_vars
    /\ [][\A f \in Feeds :
             pc[f] = "aborted" => pc'[f] = "aborted"]_vars
    /\ [][\A f \in Feeds :
             RewrittenBy(f)' # RewrittenBy(f) => pc[f] = "rewrite"]_vars
    /\ [][\A f \in Feeds :
             (pc'[f] = "rewrite" /\ pc[f] # "rewrite") => pc[f] = "in_mark"]_vars

C17_Witness ==
    \E f \in Feeds :
        /\ pc[f] = "rewrite"
        /\ pass[f] = 2
        /\ RewrittenBy(f) # {}
        /\ \A r \in RewrittenBy(f) : r[3] = 1
        /\ Dropped(f) > 0

\* C18: the duplicate check inserts an identifier it does not find, so the
\* identifier of an entry is in PROCESSED_ARTICLES from the check on, before
\* the word-count filter, and the identifiers of all entries a worker has
\* visited, skipped as short or rewritten, are in PROCESSED_ARTICLES.
C18_MarkedAtCheck ==
    /\ [][\A f \in Feeds :
             ChecksEntry(f)
             => IdentifierOf(f, entry_index[f]) \in PROCESSED_ARTICLES']_vars
    /\ [](\A f \in Feeds :
             pc[f] \in {"filter", "want_short", "in_short", "want_mark"}
             => IdentifierOf(f, entry_index[f]) \in PROCESSED_ARTICLES)
    /\ [](\A f \in Feeds :
             pc[f] = "loop"
             => \A i \in 1..entry_index[f] :
                   IdentifierOf(f, i) \in PROCESSED_ARTICLES)

\* C19: images_included never exceeds articles_posted.  Stated here for the
\* states of runs without authentication failure in which no worker is
\* inside a Publisher call, which include the state the summary is written
\* in.
C19_ImagesAtMostPosted ==
    (~authFailed /\ \A f \in Feeds : pc[f] \notin InPublisher)
    => /\ SUMMARY.images_included <= SUMMARY.articles_posted
       /\ \A i \in 1..Len(summaryFile) :
             summaryFile[i].images_included <= summaryFile[i].articles_posted

\* C20: a worker's Publisher calls of both loops together never exceed
\* ARTICLES_PER_FEED: every call that returns is counted in
\* articles_processed, which both loop conditions compare with the quota;
\* hence articles_posted, in every state and in the summary, is at most
\* ARTICLES_PER_FEED times the number of feeds.
C20_PublisherCallsWithinQuota ==
    /\ \A f \in Feeds :
          /\ PubCalls(f) <= ARTICLES_PER_FEED
          /\ articles_processed[f] <= PubCalls(f)
          /\ PubCalls(f) <= articles_processed[f] + 1
          /\ pc[f] = "loop" => PubCalls(f) = articles_processed[f]
          /\ postIds[f] <= articles_processed[f]
    /\ SUMMARY.articles_posted <= ARTICLES_PER_FEED * Cardinality(Feeds)
    /\ \A i \in 1..Len(summaryFile) :
          summaryFile[i].articles_posted
              <= ARTICLES_PER_FEED * Cardinality(Feeds)

C20_Witness ==
    /\ driver = "exited"
    /\ summaryFile[1].articles_posted = ARTICLES_PER_FEED * Cardinality(Feeds)
    /\ \E f \in Feeds :
          /\ pubCalls[f][1] > 0
          /\ pubCalls[f][2] > 0
          /\ PubCalls(f) = ARTICLES_PER_FEED

====
